---- MODULE Spec2Model ----
(***************************************************************************)
(* Model of the render service of make-ki-pdfservice (src/index.js, the    *)
(* second listing of the file, lines 286-1082): the browser-context pool   *)
(* (initPool, _acquireImmediate, _release), the FIFO wait queue            *)
(* (acquireContextWait), one render attempt (renderWithOptions) and the    *)
(* degradation loop (renderToBufferAdaptive, handleRender).                *)
(*                                                                         *)
(* Node runs one callback at a time, so an action is one synchronous run   *)
(* of the code between two awaits: a process's position (pc) is the await  *)
(* it is suspended at.  Process 0 is the app.listen callback, processes    *)
(* 1..NumRequests are callers of renderWithOptions: under Spec they call   *)
(* it once and directly, under SpecRender the first NumClients of them are *)
(* HTTP requests that handleRender takes through renderToBufferAdaptive.   *)
(* Sizes are counted in units of MIN_PDF_BYTES (1 MiB).                    *)
(* SpecLive is Spec with the event loop running the timer and setImmediate *)
(* callbacks it holds; SpecClamp computes handleRender's size limit for    *)
(* every configured cap and every maxBytes of a request.                   *)
(* SpecPasses walks the degradation passes for every configured PDF_SCALE  *)
(* and PDF_PRINT_BACKGROUND.                                               *)
(*                                                                         *)
(* SpecLazy is the server of src/unnamed/part_002, which has a pool of its *)
(* own (createContext, warmupPool, acquireContext, releaseContext): its    *)
(* calls are the renderPdf calls 1..NumRenderPdf and the /health handler.  *)
(***************************************************************************)
EXTENDS Integers, Sequences, FiniteSets, TLC

\* ---------------------------------------------------------------- bounds
NumRequests == 3    \* concurrent callers of renderWithOptions
MaxQueueMax == 2    \* QUEUE_MAX is 0 or MaxQueueMax
MaxLaunches == 2    \* browsers launched in one run
MaxPdfBytes == 2    \* page.pdf() yields 1..MaxPdfBytes units
NumClients  == 2    \* HTTP requests taken through handleRender (SpecRender)
MaxBytesArg == 3    \* a request's maxBytes is absent or 0..MaxBytesArg units
NumRenderPdf == 3   \* concurrent renderPdf calls of part_002 (SpecLazy)
MaxPoolMax == 2     \* part_002's BROWSER_POOL_MAX is BROWSER_POOL_SIZE..MaxPoolMax
MaxCap == 4         \* PDF_MAX_BYTES_CAP is 0..MaxCap units (SpecClamp)
MinScale == 84      \* the env PDF_SCALE is MinScale..MaxScale hundredths
MaxScale == 95      \* (SpecPasses)

\* ------------------------------------------------------ program constants
MIN_PDF_BYTES == 1       \* 1 MiB, the unit of size
BROWSER_POOL_SIZE == 1   \* the deployment BROWSER_POOL_SIZE=1 (the code allows 1..8)
PDF_MAX_DEFAULT == 2     \* the deployment PDF_MAX_BYTES_DEFAULT = 2 MiB
PDF_MAX_CAP == 3         \* the deployment PDF_MAX_BYTES_CAP = 3 MiB
PDF_SCALE == 94          \* 0.94, in hundredths
PDF_PRINT_BG == FALSE    \* PDF_PRINT_BACKGROUND unset
SLIM_MODE_ENABLED == FALSE   \* PDF_SLIM_MODE unset

\* part_002 (its BROWSER_POOL_SIZE is another constant than that of index.js)
BROWSER_POOL_SIZE_002 == 1   \* BROWSER_POOL_SIZE=1 (the code allows 1..32)
CONTEXT_REUSE_LIMIT == 2     \* BROWSER_CONTEXT_REUSE_LIMIT=2 (at least 1)

Listener == 0
Requests == 1..NumRequests
Clients  == 1..NumClients
Procs    == {Listener} \cup Requests

NoBrowser == 0      \* browser = null
NoCtx     == <<0, 0>>   \* null / undefined context

Health    == 0                  \* the /health handler of part_002
RenderPdfs == 1..NumRenderPdf   \* the renderPdf calls of part_002
Calls     == {Health} \cup RenderPdfs
\* Every context part_002 can create in one run: the warm-up's, one by each
\* acquireContext, one by each releaseContext, one by /health per retirement.
CtxIds    == 1..(BROWSER_POOL_SIZE_002 + 3 * NumRenderPdf)
Undefined == 0                  \* available.pop() of an empty array

VARIABLES
  QUEUE_MAX,          \* configuration, fixed at start-up
  browser,            \* let browser: the current browser, NoBrowser for null
  alive,              \* launched browsers that have not disconnected
  launched,           \* number of puppeteer.launch() calls so far
  contexts,           \* const contexts = []
  busy,               \* const busy = new Set()
  waitQueue,          \* const waitQueue = []: the tickets, named by their caller
  created,            \* per browser: number of contexts created on it so far
  pc,                 \* per process: the await it is suspended at
  ctx,                \* per process: renderWithOptions' local ctx
  i,                  \* per process: initPool's loop counter
  via,                \* per process: the browser its pending createCtx() runs on
  ticket,             \* per process: its ticket {resolve, reject, timer}
  outcome,            \* per process: how its renderWithOptions call settled
  effectiveMaxBytes,  \* per process: the limit argument of the call
  pdfBytes,           \* per process: pdf.length of its current attempt (0: no pdf)
  released,           \* per process: number of _release calls made for it
  pass,               \* per process: renderToBufferAdaptive's position in passes
                      \* (0: renderWithOptions was called on its own)
  sizeErrors,         \* per process: number of 413 errors its attempts threw
  html,               \* per process: the html of its request body ("none": no body)
  PDF_MAX_BYTES_CAP,  \* configuration, fixed at start-up: the value of PDF_MAX_CAP
  maxBytes,           \* per request of SpecClamp: the maxBytes of its body
  pdfOptimization     \* configuration, fixed at start-up: the values of PDF_SCALE
                      \* (scale, in hundredths) and PDF_PRINT_BG (printBackground)

\* The pool of src/unnamed/part_002 (a second server in the repository, with
\* its own browser, pool and /health handler).
VARIABLES
  POOL_WARMUP,        \* configuration, fixed at start-up
  BROWSER_POOL_MAX,   \* configuration, fixed at start-up
  pool,               \* let pool = []: the contexts, named 1, 2, ... as created
  available,          \* let available = []
  uses,               \* const uses = new Map(): per context, 0 for no entry
  waiters,            \* const waiters = []: the resolvers, named by their caller
  made,               \* number of contexts created so far
  at,                 \* per call: the await it is suspended at
  held,               \* per call: the local ctx of renderPdf / releaseContext
  path,               \* per call: the return of acquireContext that gave it ctx
  loopI,              \* warmupPool's loop counter i
  renders,            \* per context: number of renderPdf calls that got it
  closed              \* contexts whose close() has settled

indexVars == <<QUEUE_MAX, browser, alive, launched, contexts, busy,
               waitQueue, created, pc, ctx, i, via, ticket, outcome,
               effectiveMaxBytes, pdfBytes, released, pass, sizeErrors, html,
               PDF_MAX_BYTES_CAP, maxBytes, pdfOptimization>>

lazyConf == <<POOL_WARMUP, BROWSER_POOL_MAX>>

lazyVars == <<lazyConf, pool, available, uses, waiters, made, at, held, path,
              loopI, renders, closed>>

vars == <<indexVars, lazyVars>>

poolVars == <<browser, alive, launched, contexts, busy, waitQueue, created>>
confVars == <<QUEUE_MAX, PDF_MAX_BYTES_CAP, pdfOptimization>>

\* ------------------------------------------------------------- helpers
Range(s) == {s[k] : k \in 1..Len(s)}

SelectSeq1(s, x) == SelectSeq(s, LAMBDA e : e # x)

NoTicket == [promise |-> "none", timer |-> "none", handoff |-> "none", free |-> NoCtx]

\* A ticket nothing refers to any more (its promise is settled, its timer is not
\* armed and no setImmediate callback holds it) is dropped.
Collect(t) ==
  IF t.promise \in {"resolved", "rejected"} /\ t.timer # "armed" /\ t.handoff # "scheduled"
  THEN NoTicket ELSE t

\* ------------------------------------------------- pool: pure operators

\* A faulty _acquireImmediate that does not test busy.has(ctx).
AcquireIgnoringBusy(cs, bz) == IF Len(cs) = 0 THEN NoCtx ELSE cs[1]

\* _acquireImmediate: the first context of contexts that is not busy, or null.
_acquireImmediate(cs, bz) ==
  LET idle == {k \in 1..Len(cs) : cs[k] \notin bz}
  IN  IF idle = {} THEN NoCtx
      ELSE cs[CHOOSE k \in idle : \A m \in idle : k <= m]

\* A faulty backpressure test: waitQueue.length > QUEUE_MAX.
QueueOverfull(q, max) == Len(q) > max

\* acquireContextWait's backpressure test: waitQueue.length >= QUEUE_MAX.
QueueFull(q, max) == Len(q) >= max

\* A faulty pop: waitQueue.pop() takes the newest ticket.
Pop(q) == [ticket |-> q[Len(q)], rest |-> SubSeq(q, 1, Len(q) - 1)]

\* waitQueue.shift(): the ticket that is popped, and what stays queued.
Shift(q) == [ticket |-> Head(q), rest |-> Tail(q)]

\* waitQueue.unshift(ticket)
Unshift(q, t) == <<t>> \o q

\* A faulty hand-off that leaves the timer armed.
KeepTimeout(tm) == tm

\* clearTimeout(ticket.timer): an armed timer is cancelled, any other is left.
ClearTimeout(tm) == IF tm = "armed" THEN "cleared" ELSE tm

\* A faulty removal that only looks at the head of the queue.
SpliceHeadOnly(q, t) == IF Len(q) > 0 /\ Head(q) = t THEN Tail(q) ELSE q

\* The timer callback's removal: idx = indexOf(ticket); if (idx >= 0) splice(idx, 1).
TimerSplice(q, t) == SelectSeq1(q, t)

\* A ticket whose timer is never armed.
NoTimeout == "none"

\* "ticket.timer = setTimeout(..., QUEUE_WAIT_MS)": the timer of a new ticket.
SetTimeout == "armed"

\* A faulty size check: pdf.length >= effectiveMaxBytes.
SizeReached(len, limit) == len >= limit

\* renderWithOptions' size check: pdf.length > effectiveMaxBytes.
SizeExceeded(len, limit) == len > limit

\* A faulty renderWithOptions that releases after the return only (no finally).
ReleaseOnSuccessOnly(c, how) == IF how = "pdf" THEN c ELSE NoCtx

\* A faulty renderWithOptions that keeps its context over a 413.
KeepsContextOn413(c, how) == IF how = "too_large" THEN NoCtx ELSE c

\* The context renderWithOptions' finally block passes to _release.
FinallyCtx(c, how) == c

\* A faulty _release that does not test busy.has(ctx).
BusyHasAny(bz, c) == TRUE

\* _release's guard "if (busy.has(ctx))".
BusyHas(bz, c) == c \in bz

\* _release(c) on the busy set bz0, the queue wq and the tickets tk: the new
\* busy, waitQueue and ticket.
_releaseIn(c, bz0, wq, tk) ==
  IF ~BusyHas(bz0, c)
  THEN [busy |-> bz0, waitQueue |-> wq, ticket |-> tk]
  ELSE LET bz == bz0 \ {c} IN
       IF Len(wq) = 0
       THEN [busy |-> bz, waitQueue |-> wq, ticket |-> tk]
       ELSE LET t    == Shift(wq).ticket
                rest == Shift(wq).rest
                free == _acquireImmediate(contexts, bz)
            IN  IF free # NoCtx
                THEN [busy |-> bz \cup {free},
                      waitQueue |-> rest,
                      ticket |-> [tk EXCEPT
                                    ![t].timer = ClearTimeout(@),
                                    ![t].handoff = "scheduled",
                                    ![t].free = free]]
                ELSE [busy |-> bz, waitQueue |-> Unshift(rest, t), ticket |-> tk]

\* _release(c) on the pool as it is.
_release(c) == _releaseIn(c, busy, waitQueue, ticket)

\* ------------------------------------------------------------------ Init
TypeInit ==
  /\ browser = NoBrowser
  /\ alive = {}
  /\ launched = 1
  /\ contexts = <<>>
  /\ busy = {}
  /\ waitQueue = <<>>
  /\ created = [b \in 1..MaxLaunches |-> 0]
  /\ pc = [p \in Procs |-> IF p = Listener THEN "launch" ELSE "idle"]
  /\ ctx = [p \in Procs |-> NoCtx]
  /\ i = [p \in Procs |-> 0]
  /\ via = [p \in Procs |-> IF p = Listener THEN 1 ELSE NoBrowser]
  /\ ticket = [p \in Procs |-> NoTicket]
  /\ outcome = [p \in Procs |-> "none"]
  /\ effectiveMaxBytes = [p \in Procs |-> 0]
  /\ pdfBytes = [p \in Procs |-> 0]
  /\ released = [p \in Procs |-> 0]
  /\ sizeErrors = [p \in Procs |-> 0]
  /\ html = [p \in Procs |-> "none"]
  /\ pass = [p \in Procs |-> 0]

\* The variables of part_002 before a call: the warm-up pool is the argument.
TypeInitLazy(warm) ==
  /\ pool = warm
  /\ available = warm
  /\ uses = [c \in CtxIds \cup {Undefined} |-> 0]
  /\ waiters = <<>>
  /\ made = Len(warm)
  /\ at = [p \in Calls |-> "idle"]
  /\ held = [p \in Calls |-> Undefined]
  /\ path = [p \in Calls |-> "none"]
  /\ loopI = 0
  /\ renders = [c \in CtxIds \cup {Undefined} |-> 0]
  /\ closed = {}

\* The state when the server starts listening: the app.listen callback has
\* entered initPool and awaits puppeteer.launch(); no request has arrived.
\* (The server of part_002 is not running: it has no pool and no calls.)
Init ==
  /\ QUEUE_MAX \in {0, MaxQueueMax}
  /\ PDF_MAX_BYTES_CAP = PDF_MAX_CAP
  /\ maxBytes = <<>>
  /\ pdfOptimization = [scale |-> PDF_SCALE, printBackground |-> PDF_PRINT_BG]
  /\ TypeInit
  /\ POOL_WARMUP = FALSE /\ BROWSER_POOL_MAX = BROWSER_POOL_SIZE_002
  /\ pool = <<>> /\ available = <<>> /\ uses = <<>> /\ waiters = <<>>
  /\ made = 0 /\ at = <<>> /\ held = <<>> /\ path = <<>>
  /\ loopI = 0 /\ renders = <<>> /\ closed = {}

\* A call's bookkeeping once the call has settled (its locals are dropped).
Settle(p, how) ==
  /\ pc' = [pc EXCEPT ![p] = "settled"]
  /\ outcome' = [outcome EXCEPT ![p] = IF p = Listener THEN "none" ELSE how]
  /\ i' = [i EXCEPT ![p] = 0]
  /\ via' = [via EXCEPT ![p] = NoBrowser]

\* --------------------------------------------------- acquireContextWait

\* acquireContextWait up to its await, on the contexts cs, the busy set bz, the
\* queue wq and the tickets tk: an idle context at once, or the Busy error, or
\* a new ticket at the tail of waitQueue.
AcquireContextWait(p, cs, bz, wq, tk) ==
  LET immediate == _acquireImmediate(cs, bz) IN
    IF immediate # NoCtx
    THEN /\ busy' = bz \cup {immediate}
         /\ ctx' = [ctx EXCEPT ![p] = immediate]
         /\ pc' = [pc EXCEPT ![p] = "render"]
         /\ waitQueue' = wq
         /\ ticket' = tk
         /\ UNCHANGED outcome
    ELSE IF QueueFull(wq, QUEUE_MAX)
         THEN /\ pc' = [pc EXCEPT ![p] = "settled"]
              /\ outcome' = [outcome EXCEPT ![p] = "queue_full"]
              /\ ctx' = [ctx EXCEPT ![p] = NoCtx]
              /\ busy' = bz
              /\ waitQueue' = wq
              /\ ticket' = tk
         ELSE /\ ticket' = [tk EXCEPT ![p] =
                              [promise |-> "pending", timer |-> SetTimeout,
                               handoff |-> "none", free |-> NoCtx]]
              /\ waitQueue' = Append(wq, p)
              /\ pc' = [pc EXCEPT ![p] = "waiting"]
              /\ ctx' = [ctx EXCEPT ![p] = NoCtx]
              /\ busy' = bz
              /\ UNCHANGED outcome

\* ------------------------------------------------------------- initPool

\* renderWithOptions from its call to its first suspension, in the pool state
\* (bz, wq, tk).  With a browser, initPool returns at "if (browser) return" and
\* "await initPool()" resumes in the same turn of the event loop, so
\* acquireContextWait runs at once; with none, initPool calls
\* puppeteer.launch() and suspends (at most MaxLaunches launches in one run;
\* browsers are numbered in the order they are launched).
EnterRenderWithOptions(p, bz, wq, tk) ==
  IF browser # NoBrowser
  THEN /\ AcquireContextWait(p, contexts, bz, wq, tk)
       /\ UNCHANGED <<launched, via>>
  ELSE /\ launched < MaxLaunches
       /\ pc' = [pc EXCEPT ![p] = "launch"]
       /\ launched' = launched + 1
       /\ via' = [via EXCEPT ![p] = launched + 1]
       /\ ctx' = [ctx EXCEPT ![p] = NoCtx]
       /\ busy' = bz
       /\ waitQueue' = wq
       /\ ticket' = tk
       /\ UNCHANGED outcome

\* renderWithOptions is called on its own; callers are numbered in the order
\* they call.
RenderWithOptions(p) ==
  /\ pc[p] = "idle"
  /\ \A q \in Requests : q < p => pc[q] # "idle"
  /\ effectiveMaxBytes' = [effectiveMaxBytes EXCEPT ![p] = MIN_PDF_BYTES]
  /\ EnterRenderWithOptions(p, busy, waitQueue, ticket)
  /\ UNCHANGED <<lazyVars, confVars, html, maxBytes, browser, alive, contexts, created, i, pdfBytes, released, pass, sizeErrors>>

\* "browser = await puppeteer.launch(...)" resumes: the new browser becomes the
\* current one, its 'disconnected' handler is registered and the loop calls
\* createCtx() for i = 0.  (A launch that fails leaves the pool as it was and
\* is not modelled.)
LaunchDone(p) ==
  /\ pc[p] = "launch"
  /\ browser' = via[p]
  /\ alive' = alive \cup {via[p]}
  /\ pc' = [pc EXCEPT ![p] = "createCtx"]
  /\ i' = [i EXCEPT ![p] = 0]
  /\ UNCHANGED <<lazyVars, confVars, html, maxBytes, launched, contexts, busy, waitQueue, created, ctx, via,
                 ticket, outcome, effectiveMaxBytes, pdfBytes, released, pass, sizeErrors>>

\* "const ctx = await createCtx()" resumes: contexts.push(ctx), i++, and either
\* the next createCtx() is called on whatever the variable browser holds now
\* (a TypeError when it is null), or initPool returns: the app.listen callback
\* is done, a renderWithOptions call goes on to acquireContextWait.
CreateCtxDone(p) ==
  /\ pc[p] = "createCtx"
  /\ via[p] \in alive
  /\ contexts' = Append(contexts, <<via[p], created[via[p]] + 1>>)
  /\ created' = [created EXCEPT ![via[p]] = @ + 1]
  /\ IF i[p] + 1 < BROWSER_POOL_SIZE
     THEN /\ IF browser = NoBrowser
             THEN Settle(p, "init_error")
             ELSE /\ i' = [i EXCEPT ![p] = @ + 1]
                  /\ via' = [via EXCEPT ![p] = browser]
                  /\ UNCHANGED <<pc, outcome>>
          /\ UNCHANGED <<busy, ctx, waitQueue, ticket>>
     ELSE /\ i' = [i EXCEPT ![p] = 0]
          /\ via' = [via EXCEPT ![p] = NoBrowser]
          /\ IF p = Listener
             THEN /\ pc' = [pc EXCEPT ![p] = "settled"]
                  /\ UNCHANGED <<busy, ctx, waitQueue, ticket, outcome>>
             ELSE AcquireContextWait(p, contexts', busy, waitQueue, ticket)
  /\ UNCHANGED <<lazyVars, confVars, html, maxBytes, browser, alive, launched, effectiveMaxBytes, pdfBytes,
                 released, pass, sizeErrors>>

\* createCtx() rejects because its browser has disconnected.
CreateCtxFail(p) ==
  /\ pc[p] = "createCtx"
  /\ via[p] \notin alive
  /\ Settle(p, "init_error")
  /\ UNCHANGED <<lazyVars, confVars, html, maxBytes, poolVars, ctx, ticket, effectiveMaxBytes, pdfBytes, released,
                 pass, sizeErrors>>

\* The attempts among ps (those on the contexts of a browser) that are still
\* inside their try block (awaiting newPage, setContent or pdf) when the browser
\* disconnects: any of them.  An attempt whose try block has ended awaits
\* page.close() in the finally block, whose error is ignored.
InTryBlock(ps) == SUBSET ps

\* A 'disconnected' handler without busy.clear().
ResetKeepingBusy(cs, bz, br) == [contexts |-> <<>>, busy |-> bz, browser |-> NoBrowser]

\* A 'disconnected' handler that leaves the variable browser as it is.
ResetKeepingBrowser(cs, bz, br) == [contexts |-> <<>>, busy |-> {}, browser |-> br]

\* The 'disconnected' handler on contexts cs, busy bz and browser br:
\* contexts.splice(0, contexts.length); busy.clear(); browser = null.
ResetPool(cs, bz, br) == [contexts |-> <<>>, busy |-> {}, browser |-> NoBrowser]

\* The 'disconnected' handler of browser b runs, whichever browser is the
\* current one.  The awaits of the attempts that are inside their try block on
\* b's contexts reject: these attempts are "lost".
Disconnect(b) ==
  /\ b \in alive
  /\ alive' = alive \ {b}
  /\ contexts' = ResetPool(contexts, busy, browser).contexts
  /\ busy' = ResetPool(contexts, busy, browser).busy
  /\ browser' = ResetPool(contexts, busy, browser).browser
  /\ \E inTry \in InTryBlock({p \in Requests : pc[p] = "render" /\ ctx[p][1] = b}) :
       pc' = [p \in Procs |-> IF p \in inTry THEN "lost" ELSE pc[p]]
  /\ UNCHANGED <<lazyVars, confVars, html, maxBytes, launched, waitQueue, created, ctx, i, via, ticket,
                 outcome, effectiveMaxBytes, pdfBytes, released, pass, sizeErrors>>

\* ------------------------------------------------------ ticket callbacks

\* The ticket's setTimeout callback runs: the ticket is taken out of the queue
\* and its promise rejected (a no-op on a settled promise).
TimerFire(p) ==
  /\ ticket[p].timer = "armed"
  /\ waitQueue' = TimerSplice(waitQueue, p)
  /\ IF ticket[p].promise = "pending"
     THEN /\ ticket' = [ticket EXCEPT ![p] =
                          Collect([@ EXCEPT !.timer = "fired", !.promise = "rejected"])]
          /\ pc' = [pc EXCEPT ![p] = "settled"]
          /\ outcome' = [outcome EXCEPT ![p] = "queue_timeout"]
     ELSE /\ ticket' = [ticket EXCEPT ![p] = Collect([@ EXCEPT !.timer = "fired"])]
          /\ UNCHANGED <<pc, outcome>>
  /\ UNCHANGED <<lazyVars, confVars, html, maxBytes, browser, alive, launched, contexts, busy, created, ctx, i,
                 via, effectiveMaxBytes, pdfBytes, released, pass, sizeErrors>>

\* The setImmediate callback of a hand-off runs: ticket.resolve(free)
\* (a no-op on a settled promise), and the caller goes on with the context and
\* suspends at "await ctx.newPage()": pc is "render", or "lost" when the
\* context's browser has disconnected since _release reserved it (newPage will
\* reject).
ImmediateRun(p) ==
  /\ ticket[p].handoff = "scheduled"
  /\ IF ticket[p].promise = "pending"
     THEN /\ ticket' = [ticket EXCEPT ![p] =
                          Collect([@ EXCEPT !.handoff = "delivered", !.free = NoCtx,
                                            !.promise = "resolved"])]
          /\ ctx' = [ctx EXCEPT ![p] = ticket[p].free]
          /\ pc' = [pc EXCEPT ![p] = IF ticket[p].free[1] \in alive THEN "render"
                                                                   ELSE "lost"]
     ELSE /\ ticket' = [ticket EXCEPT ![p] =
                          Collect([@ EXCEPT !.handoff = "delivered", !.free = NoCtx])]
          /\ UNCHANGED <<ctx, pc>>
  /\ UNCHANGED <<lazyVars, confVars, html, maxBytes, poolVars, i, via, outcome, effectiveMaxBytes, pdfBytes,
                 released, pass, sizeErrors>>

\* ---------------------------------------------------- renderWithOptions

\* renderToBufferAdaptive's passes (scale in hundredths).
passesFor(printBg, scale) ==
  << [printBackground |-> printBg, blockAssets |-> FALSE, scale |-> scale],
     [printBackground |-> FALSE,   blockAssets |-> FALSE, scale |-> scale],
     [printBackground |-> FALSE,   blockAssets |-> FALSE, scale |-> 90],
     [printBackground |-> FALSE,   blockAssets |-> TRUE,  scale |-> 85] >>

\* The passes of the default configuration.
passes == passesFor(PDF_PRINT_BG, PDF_SCALE)

\* A loop that goes on to the next pass after an attempt that returned a pdf.
TriesEveryPass(k, how) == how \in {"pdf", "too_large"} /\ k \in 1..(Len(passes) - 1)

\* A catch that continues with the next pass whatever the error is.
ContinuesOnAnyError(k, how) == how # "pdf" /\ k \in 1..(Len(passes) - 1)

\* A loop that gives up one pass early.
StopsBeforeLastPass(k, how) == how = "too_large" /\ k \in 1..(Len(passes) - 2)

\* renderToBufferAdaptive's catch: a 413 with a pass left goes on to the next
\* pass ("continue"), any other error and the 413 of the last pass are thrown.
TriesNextPass(k, how) == how = "too_large" /\ k \in 1..(Len(passes) - 1)

\* The finally block's _release call, and the call settles with the pdf (of n
\* units) or the error "how".  Inside renderToBufferAdaptive a 413 with a pass left calls
\* renderWithOptions for the next pass in the same turn of the event loop, on
\* the pool as _release left it.
ReleaseAndSettle(p, how, n) ==
  LET r == _release(FinallyCtx(ctx[p], how)) IN
  /\ pdfBytes' = [pdfBytes EXCEPT ![p] = IF TriesNextPass(pass[p], how) THEN 0 ELSE n]
  /\ released' = [released EXCEPT ![p] = IF FinallyCtx(ctx[p], how) = NoCtx THEN @ ELSE @ + 1]
  /\ sizeErrors' = [sizeErrors EXCEPT ![p] = IF how = "too_large" THEN @ + 1 ELSE @]
  /\ IF TriesNextPass(pass[p], how)
     THEN /\ pass' = [pass EXCEPT ![p] = @ + 1]
          /\ EnterRenderWithOptions(p, r.busy, r.waitQueue, r.ticket)
     ELSE /\ busy' = r.busy
          /\ waitQueue' = r.waitQueue
          /\ ticket' = r.ticket
          /\ pc' = [pc EXCEPT ![p] = "settled"]
          /\ outcome' = [outcome EXCEPT ![p] = how]
          /\ ctx' = [ctx EXCEPT ![p] = NoCtx]
          /\ UNCHANGED <<launched, via, pass>>

\* An attempt ends in two turns of the event loop: the try block ends (page.pdf()
\* resolves and the size check passes or throws, or an await rejects) and the
\* finally block suspends at "await page.close()"; then _release(ctx) runs and
\* the call settles.  Both are one action, taken at the second turn; a
\* disconnect of the browser between the two leaves the attempt at "render", one
\* before the first makes it "lost".

\* The try block threw (newPage, setContent or pdf rejected, or setContent timed
\* out): the finally block closes the page, if any, and releases.
RenderThrows(p) ==
  /\ pc[p] \in {"render", "lost"}
  /\ \E how \in {"render_error", "render_timeout"} : ReleaseAndSettle(p, how, 0)
  /\ UNCHANGED <<lazyVars, confVars, html, maxBytes, browser, alive, contexts, created, i, effectiveMaxBytes>>

\* page.pdf() returned n units (the attempt began on a live browser, which may
\* have disconnected after the pdf came): the size check threw 413 or the pdf
\* is returned, and the finally block releases.
RenderReturns(p) ==
  /\ pc[p] = "render"
  /\ \E n \in 1..MaxPdfBytes :
       ReleaseAndSettle(p, IF SizeExceeded(n, effectiveMaxBytes[p])
                             THEN "too_large" ELSE "pdf", n)
  /\ UNCHANGED <<lazyVars, confVars, html, maxBytes, browser, alive, contexts, created, i, effectiveMaxBytes>>

\* ----------------------------------------------------------- handleRender

Min(a, b) == IF a < b THEN a ELSE b
Max(a, b) == IF a > b THEN a ELSE b

\* A clamp that forgets the lower bound.
ClampToMax(n, min, max) == Min(max, n)

\* clamp(n, min, max) = Math.max(min, Math.min(max, n))
clamp(n, min, max) == Max(min, Min(max, n))

\* A body's maxBytes: <<n>> for the number n, <<>> when it is absent or not a
\* number.
MaxBytesArgs == {<<>>} \cup {<<n>> : n \in 0..MaxBytesArg}

\* handleRender's reqMax: maxBytes when it is a number, PDF_MAX_DEFAULT otherwise.
ReqMax(m) == IF Len(m) = 1 THEN m[1] ELSE PDF_MAX_DEFAULT

\* The html of a request body: missing (undefined or null), the empty string,
\* not a string (a number, an object), a string longer than HTML_MAX_BYTES, or
\* an acceptable string.
Htmls == {"missing", "empty", "nonstring", "oversize", "ok"}

\* A test that rejects a missing html only.
HtmlMissing(h) == h = "missing"

\* "!html || typeof html !== 'string'"
HtmlRequired(h) == h \in {"missing", "empty"} \/ h = "nonstring"

\* handleRender up to its await: 400 without html, checkAndSlimPayload's 413
\* for an oversize html when slim mode is off, else the limit is clamped and
\* renderToBufferAdaptive calls renderWithOptions for the first pass.
HandleRender(p) ==
  /\ pc[p] = "idle"
  /\ \A q \in Clients : q < p => pc[q] # "idle"
  /\ \E h \in Htmls, m \in MaxBytesArgs :
       /\ html' = [html EXCEPT ![p] = h]
       /\ IF HtmlRequired(h) \/ (h = "oversize" /\ ~SLIM_MODE_ENABLED)
          THEN /\ pc' = [pc EXCEPT ![p] = "settled"]
               /\ outcome' = [outcome EXCEPT ![p] =
                                IF HtmlRequired(h) THEN "html_required"
                                                   ELSE "html_payload_too_large"]
               /\ UNCHANGED <<busy, waitQueue, ticket, ctx, launched, via,
                              effectiveMaxBytes, pass>>
          ELSE /\ effectiveMaxBytes' = [effectiveMaxBytes EXCEPT ![p] =
                                          clamp(ReqMax(m), MIN_PDF_BYTES, PDF_MAX_BYTES_CAP)]
               /\ pass' = [pass EXCEPT ![p] = 1]
               /\ EnterRenderWithOptions(p, busy, waitQueue, ticket)
  /\ UNCHANGED <<lazyVars, confVars, maxBytes, browser, alive, contexts, created, i,
                 pdfBytes, released, sizeErrors>>

\* ------------------------------------------------------------------ Spec
Next ==
  \/ \E p \in Requests : RenderWithOptions(p)
  \/ \E p \in Procs : LaunchDone(p)
  \/ \E p \in Procs : CreateCtxDone(p)
  \/ \E p \in Procs : CreateCtxFail(p)
  \/ \E b \in 1..MaxLaunches : Disconnect(b)
  \/ \E p \in Requests : TimerFire(p)
  \/ \E p \in Requests : ImmediateRun(p)
  \/ \E p \in Requests : RenderThrows(p)
  \/ \E p \in Requests : RenderReturns(p)

Spec == Init /\ [][Next]_vars

\* The service behind its HTTP handler: requests enter through handleRender.
NextRender ==
  \/ \E p \in Clients : HandleRender(p)
  \/ \E p \in Procs : LaunchDone(p)
  \/ \E p \in Procs : CreateCtxDone(p)
  \/ \E p \in Procs : CreateCtxFail(p)
  \/ \E b \in 1..MaxLaunches : Disconnect(b)
  \/ \E p \in Clients : TimerFire(p)
  \/ \E p \in Clients : ImmediateRun(p)
  \/ \E p \in Clients : RenderThrows(p)
  \/ \E p \in Clients : RenderReturns(p)

SpecRender == Init /\ [][NextRender]_vars

\* ------------------------------------------------------------- SpecLive
\* The event loop runs every callback it holds: the callback of an armed timer
\* (after QUEUE_WAIT_MS) and the callback of a setImmediate.  Nothing is
\* assumed of launches, of createCtx or of the page's awaits.
EventLoop ==
  \A p \in Requests : WF_vars(TimerFire(p)) /\ WF_vars(ImmediateRun(p))

SpecLive == Init /\ [][Next]_vars /\ EventLoop

\* ------------------------------------------------------------ SpecClamp
\* The limit handleRender computes, for every configured PDF_MAX_BYTES_CAP and
\* every maxBytes of the body.
InitClamp ==
  /\ QUEUE_MAX = 0
  /\ PDF_MAX_BYTES_CAP \in 0..MaxCap
  /\ maxBytes \in [Clients -> MaxBytesArgs]
  /\ pdfOptimization = [scale |-> PDF_SCALE, printBackground |-> PDF_PRINT_BG]
  /\ TypeInit
  /\ POOL_WARMUP = FALSE /\ BROWSER_POOL_MAX = BROWSER_POOL_SIZE_002
  /\ pool = <<>> /\ available = <<>> /\ uses = <<>> /\ waiters = <<>>
  /\ made = 0 /\ at = <<>> /\ held = <<>> /\ path = <<>>
  /\ loopI = 0 /\ renders = <<>> /\ closed = {}

\* handleRender's "const reqMax = ...; const effectiveMaxBytes = clamp(...)" for
\* the request p, up to the call of renderToBufferAdaptive.
EffectiveMaxBytes(p) ==
  /\ pass[p] = 0
  /\ effectiveMaxBytes' = [effectiveMaxBytes EXCEPT ![p] =
                             clamp(ReqMax(maxBytes[p]), MIN_PDF_BYTES, PDF_MAX_BYTES_CAP)]
  /\ pass' = [pass EXCEPT ![p] = 1]
  /\ UNCHANGED <<lazyVars, confVars, html, maxBytes, poolVars, pc, ctx, i, via, ticket,
                 outcome, pdfBytes, released, sizeErrors>>

NextClamp == \E p \in Clients : EffectiveMaxBytes(p)

SpecClamp == InitClamp /\ [][NextClamp]_vars

\* ----------------------------------------------------------- SpecPasses
\* The passes renderToBufferAdaptive goes through, for every configured
\* PDF_SCALE and PDF_PRINT_BACKGROUND.
InitPasses ==
  /\ QUEUE_MAX = 0
  /\ PDF_MAX_BYTES_CAP = PDF_MAX_CAP
  /\ maxBytes = <<>>
  /\ pdfOptimization \in [scale : MinScale..MaxScale, printBackground : BOOLEAN]
  /\ TypeInit
  /\ POOL_WARMUP = FALSE /\ BROWSER_POOL_MAX = BROWSER_POOL_SIZE_002
  /\ pool = <<>> /\ available = <<>> /\ uses = <<>> /\ waiters = <<>>
  /\ made = 0 /\ at = <<>> /\ held = <<>> /\ path = <<>>
  /\ loopI = 0 /\ renders = <<>> /\ closed = {}

\* The pass the request p is at, under the configuration.
CurrentPass(p) ==
  passesFor(pdfOptimization.printBackground, pdfOptimization.scale)[pass[p]]

\* "for (const p of passes)" takes the next pass for the request p (the first
\* one, or the one after a pass that ended with a 413).
ForNextPass(p) ==
  /\ pass[p] < Len(passes)
  /\ pass' = [pass EXCEPT ![p] = @ + 1]
  /\ sizeErrors' = [sizeErrors EXCEPT ![p] = pass[p]]
  /\ UNCHANGED <<lazyVars, confVars, html, maxBytes, poolVars, pc, ctx, i, via, ticket,
                 outcome, effectiveMaxBytes, pdfBytes, released>>

NextPasses == \E p \in Clients : ForNextPass(p)

SpecPasses == InitPasses /\ [][NextPasses]_vars

\* -------------------------------------------------------------- status

\* handleRender's "const status = e.status || 500": the HTTP status of an outcome.
Status(how) ==
  CASE how = "pdf"           -> 200
    [] how = "too_large"     -> 413
    [] how = "queue_full"    -> 503
    [] how = "queue_timeout" -> 503
    [] how = "html_required" -> 400
    [] how = "html_payload_too_large" -> 413
    [] OTHER                 -> 500

\* ------------------------------------------------------------- the claims

\* The contexts process p holds: the one its render attempt works on, and the
\* one a hand-off has reserved for its ticket.
HeldBy(p) ==
  (IF pc[p] \in {"render", "lost"} THEN {ctx[p]} ELSE {})
    \cup (IF ticket[p].handoff = "scheduled" THEN {ticket[p].free} ELSE {})

Pos(q, t) == CHOOSE k \in 1..Len(q) : q[k] = t

\* C1: no browser context is held by two render attempts at the same time; a
\* context reserved for a popped ticket counts as held by that ticket.
C1_ExclusiveContext ==
  \A p, q \in Requests : p # q => HeldBy(p) \cap HeldBy(q) = {}

\* C1 witness: a context is reserved for a ticket while another attempt renders
\* on a busy context of its own.
C1_Witness ==
  \E p, q \in Requests :
    /\ p # q
    /\ ticket[p].handoff = "scheduled" /\ ticket[p].free \in busy
    /\ pc[q] = "render" /\ ctx[q] \in busy

\* C2 (as claimed): busy.size <= contexts.length <= BROWSER_POOL_SIZE in every
\* reachable state.
C2_PoolBounded ==
  /\ Cardinality(busy) <= Len(contexts)
  /\ Len(contexts) <= BROWSER_POOL_SIZE

\* C3: every context obtained from acquireContextWait is passed to _release
\* exactly once before the call completes, on every exit path, and a completed
\* call keeps no context in busy: every busy context is held by a call that is
\* still running or by a ticket that is being handed it.
C3_ReleasedOnEveryExit ==
  /\ \A c \in busy : \E p \in Requests : c \in HeldBy(p)
  /\ \A p \in Requests :
       pc[p] = "settled" =>
         released[p] = (IF outcome[p] \in {"pdf", "too_large", "render_error",
                                           "render_timeout"} THEN 1 ELSE 0)

\* C3 witness: calls have completed on the render-timeout path and on the 413
\* path, each after one release.
C3_Witness ==
  \E p, q \in Requests :
    /\ pc[p] = "settled" /\ outcome[p] = "render_timeout" /\ released[p] = 1
    /\ pc[q] = "settled" /\ outcome[q] = "too_large" /\ released[q] = 1

\* C4: the queue keeps its tickets in arrival order (a step never reorders the
\* tickets that stay, and a new ticket goes behind all of them), and every
\* hand-off goes to the head, the ticket that has waited longest.
C4_Fifo ==
  [][ /\ \A t \in Requests :
           (ticket[t].handoff # "scheduled" /\ ticket'[t].handoff = "scheduled")
             => (Len(waitQueue) > 0 /\ t = Head(waitQueue))
      /\ \A a, b \in Range(waitQueue) \cap Range(waitQueue') :
           Pos(waitQueue, a) < Pos(waitQueue, b) => Pos(waitQueue', a) < Pos(waitQueue', b)
      /\ \A a \in Range(waitQueue) \cap Range(waitQueue') :
           \A n \in Range(waitQueue') \ Range(waitQueue) :
             Pos(waitQueue', a) < Pos(waitQueue', n)
    ]_vars

\* C4 witness: a ticket is being handed a context while a later one still waits.
C4_Witness ==
  \E a, b \in Requests :
    a # b /\ ticket[a].handoff = "scheduled" /\ b \in Range(waitQueue)

\* C5: waitQueue.length <= QUEUE_MAX in every reachable state.
C5_QueueBounded == Len(waitQueue) <= QUEUE_MAX

\* C5 witness: the queue is full, with two tickets.
C5_Witness == QUEUE_MAX > 1 /\ Len(waitQueue) = QUEUE_MAX

\* C6: an acquireContextWait that finds no idle context and a full queue fails
\* at once with the Busy error (503), creates no ticket, arms no timer and
\* leaves contexts, busy and waitQueue unchanged; with QUEUE_MAX = 0 no ticket
\* ever exists.
C6_BusyWhenFull ==
  /\ [](QUEUE_MAX = 0 => waitQueue = <<>> /\ \A p \in Requests : ticket[p] = NoTicket)
  /\ [][ \A p \in Requests :
           ( /\ pc[p] = "idle" /\ pc'[p] # "idle"
             /\ browser # NoBrowser
             /\ \A k \in 1..Len(contexts) : contexts[k] \in busy
             /\ Len(waitQueue) >= QUEUE_MAX )
           => ( /\ pc'[p] = "settled"
                /\ outcome'[p] = "queue_full"
                /\ Status(outcome'[p]) = 503
                /\ UNCHANGED <<contexts, busy, waitQueue, ticket>> )
       ]_vars
  /\ [][ \A p \in Requests :
           (outcome[p] # "queue_full" /\ outcome'[p] = "queue_full")
             => UNCHANGED <<contexts, busy, waitQueue, ticket>>
       ]_vars

\* C6 witness: a call was refused while the queue held QUEUE_MAX = 2 tickets.
C6_Witness ==
  /\ QUEUE_MAX > 1 /\ Len(waitQueue) = QUEUE_MAX
  /\ \E p \in Requests : pc[p] = "settled" /\ outcome[p] = "queue_full"

\* C7: hand-off and timeout exclude each other.  A live ticket is either
\* waiting (promise pending, timer armed, in the queue once, nothing handed) or
\* handed (promise pending, timer cancelled, out of the queue, a context
\* reserved); once its caller has resumed nothing of it is left to fire, and a
\* caller that timed out never got a context.
C7_HandOffXorTimeout ==
  \A p \in Requests :
    /\ \/ ticket[p] = NoTicket
       \/ /\ ticket[p] = [promise |-> "pending", timer |-> "armed",
                          handoff |-> "none", free |-> NoCtx]
          /\ Cardinality({k \in 1..Len(waitQueue) : waitQueue[k] = p}) = 1
       \/ /\ ticket[p].promise = "pending" /\ ticket[p].timer = "cleared"
          /\ ticket[p].handoff = "scheduled" /\ ticket[p].free # NoCtx
          /\ p \notin Range(waitQueue)
    /\ ticket[p] # NoTicket <=> pc[p] = "waiting"
    /\ outcome[p] = "queue_timeout" => (pc[p] = "settled" /\ released[p] = 0)

\* C7 witness: one ticket has timed out and another is being handed a context.
C7_Witness ==
  \E p, q \in Requests :
    /\ outcome[p] = "queue_timeout"
    /\ ticket[q].handoff = "scheduled"

\* C8: a ticket whose timer fires while it waits leaves the queue wherever it
\* sits and its acquire fails with the timeout error (503); afterwards no
\* _release hands it a context or marks one busy for it: the queue holds live
\* tickets only, and contexts are reserved for waiting callers only.
C8_TimedOutTicketIsGone ==
  /\ \A p \in Range(waitQueue) :
       pc[p] = "waiting" /\ ticket[p].promise = "pending" /\ ticket[p].timer = "armed"
  /\ \A p \in Requests :
       /\ ticket[p].handoff = "scheduled" => pc[p] = "waiting"
       /\ outcome[p] = "queue_timeout" =>
            /\ pc[p] = "settled" /\ Status(outcome[p]) = 503
            /\ p \notin Range(waitQueue)
            /\ HeldBy(p) = {}

\* C8 witness: the third caller's ticket timed out behind the second caller's,
\* which still waits (all three came while the only browser was up, the first
\* got the context and the others queued in the order of their numbers).
C8_Witness ==
  /\ launched = 1
  /\ pc[1] = "render"
  /\ 2 \in Range(waitQueue)
  /\ outcome[3] = "queue_timeout"

\* The case of C9 (_release pops the head ticket and _acquireImmediate then
\* finds every context busy) needs a busy context that is not in contexts:
\* _release has just deleted its own from busy.  No reachable state has one.
BusyWithinContexts == busy \subseteq Range(contexts)

\* C10: every pdf renderToBufferAdaptive returns (every 200 of handleRender) is
\* no longer than the request's effective limit; page.pdf() output of exactly
\* the limit is returned, larger output ends in the 413 error of the last pass.
C10_WithinLimit ==
  \A p \in Clients :
    /\ outcome[p] = "pdf" =>
         /\ pdfBytes[p] \in 1..effectiveMaxBytes[p]
         /\ effectiveMaxBytes[p] = clamp(effectiveMaxBytes[p], MIN_PDF_BYTES, PDF_MAX_CAP)
         /\ Status(outcome[p]) = 200
    /\ pdfBytes[p] > 0 =>
         /\ pc[p] = "settled"
         /\ outcome[p] = (IF pdfBytes[p] <= effectiveMaxBytes[p] THEN "pdf" ELSE "too_large")
    /\ outcome[p] = "too_large" => pass[p] = Len(passes)

\* C10 witness: after a 413 a later pass printed a pdf of exactly the limit, and
\* the request got it.
C10_Witness ==
  \E p \in Clients :
    /\ outcome[p] = "pdf" /\ pass[p] > 1
    /\ pdfBytes[p] = effectiveMaxBytes[p]

\* C11: for one request renderToBufferAdaptive goes through passes in their
\* order, one position at a time, and the settings of the pass it moves to
\* (printBackground, blockAssets, scale) differ from those of every pass it
\* has attempted before, for every PDF_PRINT_BG and PDF_SCALE.
C11_FixedOrderNoRepeat ==
  [][\A p \in Clients :
       pass'[p] # pass[p] =>
         /\ pass'[p] = pass[p] + 1
         /\ \A k \in 1..pass[p] : passes[k] # passes[pass'[p]]]_vars

\* C12: the pdf renderToBufferAdaptive returns is that of the first pass whose
\* output is within the limit, and no later pass is attempted: a request that
\* got its pdf at pass k made exactly k attempts (each acquired and released a
\* context), the k-1 before it each failed with the 413 error, and the k-th
\* printed the pdf within the limit.
C12_FirstFitReturned ==
  \A p \in Clients :
    outcome[p] = "pdf" =>
      /\ pc[p] = "settled"
      /\ pass[p] \in 1..Len(passes)
      /\ released[p] = pass[p]
      /\ sizeErrors[p] = pass[p] - 1
      /\ pdfBytes[p] \in 1..effectiveMaxBytes[p]

\* C12 witness: the first three passes each exceeded the limit and the last
\* one fitted; and a request whose first pass fitted made one attempt only.
C12_Witness ==
  \E p, q \in Clients :
    /\ outcome[p] = "pdf" /\ pass[p] = Len(passes) /\ sizeErrors[p] = 3 /\ released[p] = 4
    /\ outcome[q] = "pdf" /\ pass[q] = 1 /\ released[q] = 1

\* C13: an attempt that fails with an error other than the 413 ends
\* renderToBufferAdaptive with that error and no further pass is attempted:
\* every pass before the current one failed with a 413 (the loop never went on
\* after another error), and a request whose outcome is such an error is
\* settled at the pass that threw it.
C13_OtherErrorRethrown ==
  \A p \in Clients :
    /\ (pass[p] >= 1 /\ pc[p] # "settled") => sizeErrors[p] = pass[p] - 1
    /\ outcome[p] \in {"render_error", "render_timeout", "queue_full",
                       "queue_timeout", "init_error"} =>
         /\ pc[p] = "settled"
         /\ sizeErrors[p] = pass[p] - 1
         /\ released[p] \in {pass[p] - 1, pass[p]}
         /\ Status(outcome[p]) # 413

\* C13 witness: the second pass of a request threw a render error after the
\* 413 of its first pass, and the request ended with that error at pass 2.
C13_Witness ==
  \E p \in Clients :
    /\ outcome[p] = "render_error" /\ Status(outcome[p]) = 500
    /\ pass[p] = 2 /\ sizeErrors[p] = 1 /\ released[p] = 2

\* C14: renderToBufferAdaptive fails with the 413 error only after every pass
\* was attempted and each printed more than the limit, and the error carries
\* the pdf_bytes and limit_bytes of the last pass: pdf_bytes above the
\* request's effective limit.
C14_SizeExceededAfterAllPasses ==
  \A p \in Clients :
    /\ outcome[p] = "too_large" =>
         /\ pc[p] = "settled" /\ Status(outcome[p]) = 413
         /\ pass[p] = Len(passes)
         /\ sizeErrors[p] = Len(passes) /\ released[p] = Len(passes)
         /\ pdfBytes[p] > effectiveMaxBytes[p]
    /\ (pass[p] >= 1 /\ pc[p] = "settled" /\ Status(outcome[p]) = 413) =>
         outcome[p] = "too_large"
    /\ sizeErrors[p] = Len(passes) => outcome[p] = "too_large"

\* C14 witness: all four passes of a request printed more than its limit and
\* it ended with the 413 of the fourth.
C14_Witness ==
  \E p \in Clients :
    /\ outcome[p] = "too_large" /\ pass[p] = 4 /\ sizeErrors[p] = 4
    /\ pdfBytes[p] = MaxPdfBytes /\ effectiveMaxBytes[p] = MIN_PDF_BYTES

\* C15 (as stated): a disconnect empties contexts and busy and clears browser
\* in one step; every attempt that holds a context of the gone browser ends
\* with an error; and a call that finds no browser launches a new one.
C15_HolderFailsOnDisconnect ==
  [][/\ (alive' # alive /\ alive' \subseteq alive) =>
          (contexts' = <<>> /\ busy' = {} /\ browser' = NoBrowser)
     /\ \A p \in Requests :
          /\ (pc[p] \in {"render", "lost"} /\ ctx[p][1] \notin alive /\ pc'[p] = "settled") =>
               outcome'[p] \in {"render_error", "render_timeout"}
          /\ (browser = NoBrowser /\ pc[p] = "idle" /\ pc'[p] # "idle") =>
               (pc'[p] = "launch" /\ launched' = launched + 1)]_vars

\* C15 (amended): a disconnect empties contexts and busy and clears browser in
\* one step, so that browser is never a gone browser and contexts and busy hold
\* contexts of live browsers only; an attempt that was inside its try block on
\* a context of the gone browser, or is handed one afterwards, ends with an
\* error; a call that finds no browser launches a new one, and the context a
\* call takes from contexts after its initPool is one of a live browser.
C15_DisconnectResetsPool ==
  [][/\ (alive' # alive /\ alive' \subseteq alive) =>
          (contexts' = <<>> /\ busy' = {} /\ browser' = NoBrowser)
     /\ browser' \in alive' \cup {NoBrowser}
     /\ \A c \in Range(contexts') \cup busy' : c[1] \in alive'
     /\ \A p \in Requests :
          /\ pc'[p] = "lost" => ctx'[p][1] \notin alive'
          /\ (pc[p] = "lost" /\ pc'[p] # "lost") =>
               (pc'[p] = "settled" /\ outcome'[p] \in {"render_error", "render_timeout"})
          /\ (browser = NoBrowser /\ pc[p] = "idle" /\ pc'[p] # "idle") =>
               (pc'[p] = "launch" /\ launched' = launched + 1)
          /\ (pc[p] \in {"idle", "createCtx"} /\ pc'[p] = "render") =>
               (ctx'[p][1] \in alive' /\ ctx'[p] \in busy')]_vars

\* C15 witness: the first caller's attempt was inside its try block on the
\* context of browser 1 when that browser disconnected, and the second caller,
\* who found no browser, has launched browser 2.
C15_Witness ==
  /\ pc[1] = "lost" /\ ctx[1] = <<1, 1>> /\ 1 \notin alive
  /\ browser = NoBrowser /\ contexts = <<>> /\ busy = {}
  /\ pc[2] = "launch" /\ via[2] = 2

\* ------------------------------------------------- part_002: the lazy pool
\* One action is one turn of the event loop.  "await getBrowser()" (the browser
\* is up since start-up), the return of an async function to its awaiting
\* caller and the resumption of a waiter that _resolveNext() resolved are
\* continuations of the same turn; createIncognitoBrowserContext(), close() and
\* the page calls of renderPdf are completed in a later turn.

Last(s) == s[Len(s)]
Front(s) == SubSeq(s, 1, Len(s) - 1)

\* pool.splice(pool.indexOf(c), 1) when c is in pool, pool as it is otherwise.
SpliceCtx(s, c) ==
  IF c \notin Range(s) THEN s
  ELSE LET idx == CHOOSE k \in 1..Len(s) : s[k] = c /\ \A j \in 1..(k - 1) : s[j] # c
       IN SubSeq(s, 1, idx - 1) \o SubSeq(s, idx + 1, Len(s))

\* createContext after its awaits, for the context named c: uses.set(ctx, 0);
\* pool.push(ctx); available.push(ctx).
createContext(c, pl, av, us) ==
  [pool |-> Append(pl, c), available |-> Append(av, c), uses |-> [us EXCEPT ![c] = 0]]

\* _resolveNext() on available av and waiters ws, with the resumption of the
\* waiter it resolves: "const ctx = available.pop(); return ctx".
_resolveNext(av, ws) ==
  IF ws = <<>>
  THEN [available |-> av, waiters |-> ws, woken |-> {}, ctx |-> Undefined]
  ELSE [available |-> IF av = <<>> THEN av ELSE Front(av),
        waiters   |-> Tail(ws),
        woken     |-> {Head(ws)},
        ctx       |-> IF av = <<>> THEN Undefined ELSE Last(av)]

\* The pool and the calls as one value, for the steps that run in one turn.
LazyState(av, ws, us, a, h, pt, rn) ==
  [available |-> av, waiters |-> ws, uses |-> us, at |-> a, held |-> h,
   path |-> pt, renders |-> rn]

RECURSIVE GotContext(_, _, _), ResolveWaiters(_)

\* acquireContext of the call w has returned c without a suspension in between
\* (popped from available).  With a context renderPdf suspends at
\* "await ctx.newPage()".  With undefined, "ctx.newPage()" throws a TypeError in
\* the same turn and the finally block calls releaseContext(undefined): the
\* use is counted under the key undefined, and either undefined is pushed to
\* available, the next waiter is resolved and renderPdf rejects, or, at the
\* reuse limit, "ctx.close()" throws (ignored), uses.delete(undefined) and
\* "await createContext()" suspends.
GotContext(st, w, c) ==
  IF c # Undefined
  THEN [st EXCEPT !.at[w] = "render", !.held[w] = c, !.renders[c] = @ + 1]
  ELSE LET n == st.uses[Undefined] + 1 IN
         IF n >= CONTEXT_REUSE_LIMIT
         THEN [st EXCEPT !.uses[Undefined] = 0, !.at[w] = "replace",
                         !.held[w] = Undefined, !.renders[Undefined] = @ + 1]
         ELSE ResolveWaiters([st EXCEPT !.available = Append(@, Undefined),
                                        !.uses[Undefined] = n, !.at[w] = "done",
                                        !.held[w] = Undefined,
                                        !.renders[Undefined] = @ + 1])

\* _resolveNext() with the resumption of the waiter it resolves, which goes on
\* with what it popped.
ResolveWaiters(st) ==
  LET r == _resolveNext(st.available, st.waiters) IN
    IF r.woken = {} THEN st
    ELSE LET w == CHOOSE q \in r.woken : TRUE IN
           GotContext([st EXCEPT !.available = r.available, !.waiters = r.waiters,
                                 !.path[w] = "woken"], w, r.ctx)

\* The new values of a turn that ends in the state st.
Becomes(st) ==
  /\ available' = st.available
  /\ waiters' = st.waiters
  /\ uses' = st.uses
  /\ at' = st.at
  /\ held' = st.held
  /\ path' = st.path
  /\ renders' = st.renders

\* The end of a releaseContext call of p on (av, ws, us): its finally block
\* runs _resolveNext(), renderPdf settles, and the waiter that was resolved, if
\* any, goes on with what it popped.
Released(p, av, ws, us) ==
  Becomes(ResolveWaiters(LazyState(av, ws, us, [at EXCEPT ![p] = "done"],
                                   [held EXCEPT ![p] = Undefined], path, renders)))

\* The state when the server of part_002 starts listening: the browser is up
\* and, with POOL_WARMUP, warmupPool has filled the pool up to
\* min(BROWSER_POOL_SIZE, BROWSER_POOL_MAX) idle contexts.
InitLazy ==
  /\ QUEUE_MAX = 0
  /\ PDF_MAX_BYTES_CAP = PDF_MAX_CAP
  /\ maxBytes = <<>>
  /\ pdfOptimization = [scale |-> PDF_SCALE, printBackground |-> PDF_PRINT_BG]
  /\ TypeInit
  /\ POOL_WARMUP \in BOOLEAN
  /\ BROWSER_POOL_MAX \in BROWSER_POOL_SIZE_002..MaxPoolMax
  /\ TypeInitLazy(IF POOL_WARMUP
                  THEN [k \in 1..Min(BROWSER_POOL_SIZE_002, BROWSER_POOL_MAX) |-> k]
                  ELSE <<>>)

\* renderPdf is called (calls are numbered in the order they come) and runs up
\* to the first await of acquireContext that suspends: an available context is
\* popped and the render begins on it, or createContext() is called when the
\* pool is below BROWSER_POOL_MAX, or the call joins waiters.
RenderPdf(p) ==
  /\ at[p] = "idle"
  /\ \A q \in RenderPdfs : q < p => at[q] # "idle"
  /\ IF available # <<>>
     THEN Becomes(GotContext(LazyState(Front(available), waiters, uses, at, held,
                                       [path EXCEPT ![p] = "popped"], renders),
                             p, Last(available)))
     ELSE IF Len(pool) < BROWSER_POOL_MAX
     THEN /\ at' = [at EXCEPT ![p] = "createContext"]
          /\ UNCHANGED <<available, held, path, renders, waiters, uses>>
     ELSE /\ waiters' = Append(waiters, p)
          /\ at' = [at EXCEPT ![p] = "waiting"]
          /\ UNCHANGED <<available, held, path, renders, uses>>
  /\ UNCHANGED <<indexVars, lazyConf, pool, made, loopI, closed>>

\* createIncognitoBrowserContext() of an acquireContext call resolves:
\* createContext registers the context in uses, pool and available and returns
\* it; acquireContext returns it to renderPdf, which begins the render on it.
CreateContextDone(p) ==
  /\ at[p] = "createContext"
  /\ LET n == createContext(made + 1, pool, available, uses) IN
       /\ pool' = n.pool /\ available' = n.available /\ uses' = n.uses
  /\ made' = made + 1
  /\ held' = [held EXCEPT ![p] = made + 1]
  /\ path' = [path EXCEPT ![p] = "created"]
  /\ renders' = [renders EXCEPT ![made + 1] = @ + 1]
  /\ at' = [at EXCEPT ![p] = "render"]
  /\ UNCHANGED <<indexVars, lazyConf, waiters, loopI, closed>>

\* The try block of renderPdf ends (with the pdf or an error) and its finally
\* block calls releaseContext(ctx): the use is counted, and the context is put
\* back into available and the next waiter resolved, or, at the reuse limit,
\* "await ctx.close()" suspends.
RenderEnds(p) ==
  /\ at[p] = "render"
  /\ held[p] # Undefined
  /\ LET n == uses[held[p]] + 1 IN
       IF n >= CONTEXT_REUSE_LIMIT
       THEN /\ uses' = [uses EXCEPT ![held[p]] = n]
            /\ at' = [at EXCEPT ![p] = "close"]
            /\ UNCHANGED <<available, waiters, held, path, renders>>
       ELSE Released(p, Append(available, held[p]), waiters,
                     [uses EXCEPT ![held[p]] = n])
  /\ UNCHANGED <<indexVars, lazyConf, pool, made, loopI, closed>>

\* "await ctx.close()" of releaseContext resumes (an error is ignored): the
\* context is taken out of pool and uses, and createContext() is called.
CloseDone(p) ==
  /\ at[p] = "close"
  /\ closed' = closed \cup {held[p]}
  /\ pool' = SpliceCtx(pool, held[p])
  /\ uses' = [uses EXCEPT ![held[p]] = 0]
  /\ at' = [at EXCEPT ![p] = "replace"]
  /\ UNCHANGED <<indexVars, lazyConf, available, waiters, made, held, path, loopI,
                 renders>>

\* createIncognitoBrowserContext() of releaseContext's createContext() resolves:
\* the replacement is registered, and the finally block resolves the next
\* waiter.
ReplaceDone(p) ==
  /\ at[p] = "replace"
  /\ LET n == createContext(made + 1, pool, available, uses) IN
       /\ pool' = n.pool
       /\ Released(p, n.available, waiters, n.uses)
  /\ made' = made + 1
  /\ UNCHANGED <<indexVars, lazyConf, loopI, closed>>

\* createContext() of releaseContext rejects (createIncognitoBrowserContext()
\* fails or runs into the protocol timeout): no replacement is registered, and
\* the finally block resolves the next waiter before releaseContext rejects.
ReplaceFail(p) ==
  /\ at[p] = "replace"
  /\ Released(p, available, waiters, uses)
  /\ UNCHANGED <<indexVars, lazyConf, pool, made, loopI, closed>>

\* b.version() of the /health handler resolves with POOL_WARMUP set and
\* pool.length < BROWSER_POOL_SIZE: warmupPool starts its loop at
\* i = pool.length and calls createContext().  (Otherwise the handler changes
\* nothing.)
HealthWarmup ==
  /\ at[Health] = "idle"
  /\ POOL_WARMUP /\ Len(pool) < BROWSER_POOL_SIZE_002
  /\ Len(pool) < Min(BROWSER_POOL_SIZE_002, BROWSER_POOL_MAX)
  /\ loopI' = Len(pool)
  /\ at' = [at EXCEPT ![Health] = "createContext"]
  /\ UNCHANGED <<indexVars, lazyConf, pool, available, uses, waiters, made, held,
                 path, renders, closed>>

\* createIncognitoBrowserContext() of warmupPool's createContext() resolves:
\* the context is registered and the loop goes on with i + 1 or ends.
WarmupCreateDone ==
  /\ at[Health] = "createContext"
  /\ LET n == createContext(made + 1, pool, available, uses) IN
       /\ pool' = n.pool /\ available' = n.available /\ uses' = n.uses
  /\ made' = made + 1
  /\ IF loopI + 1 < Min(BROWSER_POOL_SIZE_002, BROWSER_POOL_MAX)
     THEN /\ loopI' = loopI + 1
          /\ UNCHANGED at
     ELSE /\ loopI' = 0
          /\ at' = [at EXCEPT ![Health] = "idle"]
  /\ UNCHANGED <<indexVars, lazyConf, waiters, held, path, renders, closed>>

NextLazy ==
  \/ \E p \in RenderPdfs : RenderPdf(p)
  \/ \E p \in RenderPdfs : CreateContextDone(p)
  \/ \E p \in RenderPdfs : RenderEnds(p)
  \/ \E p \in RenderPdfs : CloseDone(p)
  \/ \E p \in RenderPdfs : ReplaceDone(p)
  \/ \E p \in RenderPdfs : ReplaceFail(p)
  \/ HealthWarmup
  \/ WarmupCreateDone

SpecLazy == InitLazy /\ [][NextLazy]_vars

\* CtxIds names every context a run creates, and a call that suspends in its
\* try block or at close() has a context (a call that was given undefined
\* fails in the turn in which it got it).
CtxIdsSuffice ==
  /\ made <= BROWSER_POOL_SIZE_002 + 3 * NumRenderPdf
  /\ \A p \in Calls : at[p] \in {"render", "close"} => held[p] \in CtxIds

\* C16: in part_002 pool.length never exceeds BROWSER_POOL_MAX and the number
\* of contexts in use (held by a renderPdf call that has not released) never
\* exceeds pool.length, whatever the interleaving of acquisitions, releases
\* and warm-ups.
C16_LazyPoolBounded ==
  /\ Len(pool) <= BROWSER_POOL_MAX
  /\ Cardinality({held[p] : p \in {q \in RenderPdfs : at[q] \in {"render", "close"}}})
       <= Len(pool)

\* C17: in part_002 a context that acquireContext created for its caller is
\* that caller's alone until the caller calls releaseContext: no other
\* renderPdf call holds it meanwhile.
C17_CreatedContextExclusive ==
  \A p, q \in RenderPdfs :
    (p # q /\ at[p] = "render" /\ path[p] = "created" /\ at[q] = "render")
      => held[q] # held[p]

\* C18: in part_002 no context performs more than CONTEXT_REUSE_LIMIT renders:
\* its count in uses never exceeds the limit, no more than that many renderPdf
\* calls get it, and a context that was closed at the limit is neither in pool
\* nor in available (so it is not handed out again).
C18_ReuseLimit ==
  \A c \in CtxIds :
    /\ uses[c] <= CONTEXT_REUSE_LIMIT
    /\ renders[c] <= CONTEXT_REUSE_LIMIT
    /\ c \in closed => (c \notin Range(pool) /\ c \notin Range(available))

\* C19: a releaseContext call of part_002 that retires a context at the reuse
\* limit takes exactly that context out of pool and puts exactly one new
\* context in, so its own effect leaves pool.length as it was; the replacement
\* is unused and is in available, or goes to the waiter the release resolves
\* (the steps of a release whose createContext() succeeds).
C19_RetireReplacesOne ==
  [][\A p \in RenderPdfs :
       /\ (at[p] = "close" /\ at'[p] = "replace") =>
            (held[p] \in Range(pool) /\ Len(pool') = Len(pool) - 1)
       /\ (at[p] = "replace" /\ at'[p] = "done" /\ made' # made) =>
            /\ Len(pool') = Len(pool) + 1
            /\ made' = made + 1 /\ Last(pool') = made' /\ uses'[made'] = 0
            /\ \/ made' \in Range(available')
               \/ \E q \in RenderPdfs :
                    at[q] = "waiting" /\ at'[q] = "render" /\ held'[q] = made']_vars

\* C20: with BROWSER_POOL_SIZE = 1, a queue that admits a waiter, no browser
\* disconnect and two renderWithOptions calls only: one browser is launched
\* and one context created; while the first caller holds the context the
\* second, once its call has run, waits in waitQueue; and the second call ends
\* with its pdf unless its own render fails, prints too much or its ticket
\* times out.
C20_TwoRendersOneWorker ==
  ( /\ BROWSER_POOL_SIZE = 1 /\ QUEUE_MAX > 0
    /\ pc[3] = "idle"
    /\ \A b \in 1..launched : b \in alive \/ \E p \in Procs : pc[p] = "launch" /\ via[p] = b )
  =>
    /\ launched = 1
    /\ \A b \in 1..MaxLaunches : created[b] <= (IF b = 1 THEN 1 ELSE 0)
    /\ Len(contexts) <= 1
    /\ (pc[1] = "render" /\ pc[2] \notin {"idle", "settled"}) =>
         (pc[2] = "waiting" /\ waitQueue = <<2>>)
    /\ (pc[1] = "settled" /\ pc[2] = "settled") =>
         outcome[2] \in {"pdf", "too_large", "render_error", "render_timeout",
                         "queue_timeout"}

\* C21: a request whose html is missing, empty or not a string is answered 400
\* ("html required") in the step that takes it, before initPool or any
\* acquisition: no browser is launched, no context marked busy, no ticket
\* enqueued, and the pool is as it was.
C21_InvalidInputBeforeAcquisition ==
  [][\A p \in Clients :
       (pc[p] = "idle" /\ pc'[p] # "idle"
          /\ html'[p] \in {"missing", "empty", "nonstring"}) =>
         /\ pc'[p] = "settled"
         /\ outcome'[p] = "html_required" /\ Status(outcome'[p]) = 400
         /\ ctx'[p] = NoCtx /\ ticket'[p] = NoTicket /\ released'[p] = 0
         /\ UNCHANGED <<browser, alive, launched, contexts, busy, waitQueue, created>>]_vars

\* C21 witness: a request with an empty html and one with an html that is not
\* a string were answered 400 while start-up's launch was still the only one
\* and the pool was empty.
C21_Witness ==
  /\ html[1] = "empty" /\ outcome[1] = "html_required"
  /\ html[2] = "nonstring" /\ outcome[2] = "html_required"
  /\ launched = 1 /\ pc[Listener] = "launch" /\ contexts = <<>> /\ busy = {}

C23_TimeoutsAnswered503 ==
  \A p \in Clients :
    (pc[p] = "settled" /\ outcome[p] \in {"queue_timeout", "render_timeout"}) =>
      Status(outcome[p]) = 503

\* C24: a request never holds more than one context; it holds none while its
\* ticket is in waitQueue, before its first acquisition and after it has
\* settled; and a step that goes on to the next profile has released the
\* context of the previous one before it acquires again, so that the context
\* it holds afterwards, if any, comes from the new acquisition.
C24_OneContextPerRequest ==
  [][\A p \in Clients :
       /\ Cardinality(HeldBy(p)') <= 1
       /\ p \in Range(waitQueue') => HeldBy(p)' = {}
       /\ pc'[p] \in {"idle", "launch", "createCtx", "settled"} => HeldBy(p)' = {}
       /\ pass'[p] = pass[p] + 1 /\ pass[p] >= 1 =>
            /\ released'[p] = released[p] + 1
            /\ ctx[p] \in busy' =>
                 \/ ctx'[p] = ctx[p] /\ pc'[p] = "render"
                 \/ \E q \in Clients \ {p} : ticket'[q].free = ctx[p] /\ ctx'[p] # ctx[p]
     ]_vars

\* C24 witness: request 1 is at its second profile and waits in the queue
\* without a context, because the context of its first profile went to the
\* ticket of request 2 when it was released.
C24_Witness ==
  /\ pass[1] = 2 /\ released[1] = 1 /\ pc[1] = "waiting" /\ waitQueue = <<1>>
  /\ HeldBy(1) = {}
  /\ ticket[2].handoff = "scheduled" /\ HeldBy(2) = {ticket[2].free}

\* C25: a request calls renderWithOptions at most Len(passes) = 4 times and
\* has at most that many render attempts; a further call is made only in the
\* step in which the attempt before ended with the 413 of the size check; a
\* request that is not settled can always go on (a waiting ticket has its timer
\* armed or its hand-off scheduled); and a settled request has a pdf or one of
\* the errors of the pipeline, the 413 of the last pass after four attempts.
C25_AtMostFourAttempts ==
  [][\A p \in Clients :
       /\ pass'[p] \in 0..Len(passes)
       /\ released'[p] <= pass'[p]
       /\ pass'[p] # pass[p] =>
            /\ pass'[p] = pass[p] + 1
            /\ pass[p] >= 1 =>
                 /\ pc[p] = "render"
                 /\ sizeErrors'[p] = sizeErrors[p] + 1
                 /\ released'[p] = released[p] + 1
       /\ pc'[p] = "waiting" =>
            ticket'[p].timer = "armed" \/ ticket'[p].handoff = "scheduled"
       /\ pc'[p] = "settled" =>
            /\ outcome'[p] \in {"pdf", "too_large", "render_error", "render_timeout",
                                "queue_full", "queue_timeout", "init_error",
                                "html_required", "html_payload_too_large"}
            /\ sizeErrors'[p] = Len(passes) => outcome'[p] = "too_large"
            /\ UNCHANGED <<pass[p], released[p], sizeErrors[p]>> \/ pc[p] # "settled"
     ]_vars

\* C25 witness: request 1 has ended with the 413 of the fourth attempt, and
\* request 2 with the pdf of its second.
C25_Witness ==
  /\ pc[1] = "settled" /\ outcome[1] = "too_large"
  /\ pass[1] = Len(passes) /\ released[1] = Len(passes) /\ sizeErrors[1] = Len(passes)
  /\ pc[2] = "settled" /\ outcome[2] = "pdf" /\ pass[2] = 2 /\ released[2] = 2

\* C26: every call of acquireContextWait that suspends on a ticket eventually
\* completes, with a context or with the timeout error, whatever requests,
\* releases and disconnects happen meanwhile (a call that does not suspend
\* completes at once, with a context or the queue-full error).
C26_EveryWaitCompletes ==
  \A p \in Requests : (pc[p] = "waiting") ~> (pc[p] \in {"render", "lost", "settled"})

\* C26 witness: after a disconnect that emptied the pool, one queued call has
\* ended with the timeout error and another still waits with its timer armed.
C26_Witness ==
  /\ browser = NoBrowser /\ alive = {} /\ contexts = <<>>
  /\ \E p, q \in Requests :
       /\ pc[p] = "settled" /\ outcome[p] = "queue_timeout"
       /\ pc[q] = "waiting" /\ ticket[q].timer = "armed" /\ waitQueue = <<q>>

\* C27: whenever waitQueue is not empty every context in contexts is busy (no
\* ticket waits beside an idle context), and a call that acquires a context
\* immediately does so with an empty waitQueue.
C27_NoIdleContextWhileQueued ==
  [][/\ waitQueue' # <<>> => Range(contexts') \subseteq busy'
     /\ \A p \in Requests :
          (pc[p] # "render" /\ pc'[p] = "render" /\ ticket[p].handoff # "scheduled") =>
            waitQueue = <<>>
    ]_vars

\* C28: busy is a subset of contexts in every reachable state, and whenever a
\* call holds a busy context while tickets wait, the _acquireImmediate that
\* follows busy.delete in its _release finds a free context: the branch that
\* puts the ticket back at the head of waitQueue is not taken.
C28_ReleaseFindsFreeContext ==
  /\ BusyWithinContexts
  /\ \A p \in Requests :
       (pc[p] \in {"render", "lost"} /\ ctx[p] \in busy /\ waitQueue # <<>>) =>
         /\ _acquireImmediate(contexts, busy \ {ctx[p]}) # NoCtx
         /\ _release(ctx[p]).waitQueue = Shift(waitQueue).rest

\* C28 witness: every context is busy, a ticket waits, and the holder's
\* _release will find its own context free for the ticket.
C28_Witness ==
  \E p \in Requests :
    /\ pc[p] = "render" /\ busy = Range(contexts) /\ ctx[p] \in busy
    /\ Len(waitQueue) = 2
    /\ _acquireImmediate(contexts, busy \ {ctx[p]}) = ctx[p]
    /\ _release(ctx[p]).ticket[Head(waitQueue)].free = ctx[p]

\* C29: the step of a _release that hands off takes the head ticket out of the
\* queue, marks the context it reserves busy and clears the ticket's timer,
\* while the ticket's call stays suspended; the call resumes with exactly that
\* context in a later step, the setImmediate callback; and from the reservation
\* to the resumption no other call acquires that context and no other ticket
\* is given it.
C29_ReservedThenResumed ==
  [][\A t \in Requests :
       /\ (ticket[t].handoff # "scheduled" /\ ticket'[t].handoff = "scheduled") =>
            /\ waitQueue # <<>> /\ Head(waitQueue) = t
            /\ \/ waitQueue' = Tail(waitQueue)
               \/ \E p \in Requests \ {t} : waitQueue' = Append(Tail(waitQueue), p)
            /\ ticket'[t].free \in Range(contexts) /\ ticket'[t].free \in busy'
            /\ ticket'[t].timer = "cleared"
            /\ ticket'[t].promise = "pending" /\ pc'[t] = "waiting" /\ ctx'[t] = NoCtx
            /\ \E p \in Requests \ {t} : released'[p] = released[p] + 1
            /\ \A q \in Requests \ {t} :
                 /\ pc'[q] \in {"render", "lost"} => ctx'[q] # ticket'[t].free
                 /\ ticket'[q].free # ticket'[t].free
       /\ (ticket[t].handoff = "scheduled" /\ ticket'[t].handoff = "scheduled") =>
            /\ ticket'[t] = ticket[t] /\ pc'[t] = "waiting"
            /\ \A q \in Requests \ {t} :
                 /\ pc'[q] \in {"render", "lost"} => ctx'[q] # ticket[t].free
                 /\ ticket'[q].free # ticket[t].free
       /\ (ticket[t].handoff = "scheduled" /\ ticket'[t].handoff # "scheduled") =>
            /\ ctx'[t] = ticket[t].free
            /\ pc'[t] \in {"render", "lost"}
            /\ UNCHANGED <<busy, contexts, waitQueue, released>>
     ]_vars

\* C29 witness: a context is reserved for request 2, whose call is still
\* suspended, after request 1 released it; request 3 called in between and
\* had to queue.
C29_Witness ==
  /\ QUEUE_MAX = MaxQueueMax
  /\ pc[1] = "settled" /\ outcome[1] = "pdf" /\ released[1] = 1
  /\ pc[2] = "waiting" /\ ticket[2].handoff = "scheduled" /\ ticket[2].free \in busy
  /\ pc[3] = "waiting" /\ waitQueue = <<3>> /\ busy = Range(contexts)

\* C30: in part_002 no acquireContext call returns undefined: no renderPdf call
\* has been given undefined as its context, and a waiter that releaseContext
\* resolved holds a context of the pool.
C30_NeverUndefined ==
  /\ renders[Undefined] = 0
  /\ Undefined \notin Range(available)
  /\ \A p \in RenderPdfs :
       (path[p] = "woken" /\ at[p] \in {"render", "close", "replace"}) =>
         held[p] \in CtxIds

\* C31: in part_002 every entry of available is a context that has not been
\* closed, is in pool and is held by no renderPdf call in its try block; no
\* context is in available twice; so available.length <= pool.length.
C31_AvailableIdleAndLive ==
  /\ \A k \in 1..Len(available) :
       /\ available[k] \in Range(pool)
       /\ available[k] \notin closed
       /\ \A p \in RenderPdfs : ~(at[p] = "render" /\ held[p] = available[k])
       /\ \A j \in 1..Len(available) : available[j] = available[k] => j = k
  /\ Len(available) <= Len(pool)

\* C32: at most one launch is pending at a time, every launched browser that
\* has not disconnected is the current browser, and every context in contexts
\* belongs to the current browser (so the disconnect of a browser wipes its own
\* contexts only).
C32_OneBrowser ==
  /\ Cardinality({p \in Procs : pc[p] = "launch"}) <= 1
  /\ alive \subseteq {browser}
  /\ \A k \in 1..Len(contexts) : contexts[k][1] = browser

\* The contexts created so far, on any browser.
CreatedCtxs ==
  {c \in (1..MaxLaunches) \X (1..BROWSER_POOL_SIZE) : c[2] <= created[c[1]]}

\* _release(c) of a context in busy, followed by a second _release(c).
ReleasedTwice(c) ==
  LET r == _release(c) IN _releaseIn(c, r.busy, r.waitQueue, r.ticket)

\* C33 (as stated): _release of a context that is not in busy leaves busy,
\* waitQueue and the tickets as they are, and releasing a context twice gives
\* what releasing it once gives.
C33_ReleaseIdempotent ==
  \A c \in CreatedCtxs :
    /\ c \notin busy =>
         _release(c) = [busy |-> busy, waitQueue |-> waitQueue, ticket |-> ticket]
    /\ ReleasedTwice(c) = _release(c)

\* C33 (amended): _release of a context that is not in busy changes nothing;
\* a second _release of a context changes nothing exactly when the first did not
\* reserve that context for the head ticket; when it did, the context is busy
\* for the ticket and the second _release takes it out of busy again.
C33_ReleaseOfIdleContextIsNoOp ==
  \A c \in CreatedCtxs :
    /\ c \notin busy =>
         _release(c) = [busy |-> busy, waitQueue |-> waitQueue, ticket |-> ticket]
    /\ c \notin _release(c).busy => ReleasedTwice(c) = _release(c)
    /\ c \in _release(c).busy =>
         /\ c \in busy /\ waitQueue # <<>>
         /\ _release(c).ticket[Head(waitQueue)].free = c
         /\ ReleasedTwice(c) # _release(c)
         /\ \/ c \notin ReleasedTwice(c).busy
            \/ \E t \in Range(waitQueue) \ {Head(waitQueue)} :
                 ReleasedTwice(c).ticket[t].free = c

\* C33 witness: a call whose context was acquired before a disconnect reset
\* has released it while a ticket waits: the ticket is still queued, nothing
\* was handed to it and the pool is as the reset left it.
C33_Witness ==
  /\ browser = NoBrowser /\ contexts = <<>> /\ busy = {}
  /\ pc[1] = "settled" /\ outcome[1] = "render_error" /\ released[1] = 1
  /\ waitQueue = <<2>> /\ ticket[2].handoff = "none" /\ ticket[2].timer = "armed"

\* C34: for every configured PDF_SCALE and PDF_PRINT_BACKGROUND, the pass a
\* request goes on to has a scale not above that of the pass before, prints no
\* background if the pass before printed none, and blocks the assets if the
\* pass before blocked them.
C34_FidelityNeverIncreases ==
  [][\A p \in Clients :
       (pass[p] >= 1 /\ pass'[p] = pass[p] + 1) =>
         /\ CurrentPass(p)'.scale <= CurrentPass(p).scale
         /\ ~CurrentPass(p).printBackground => ~CurrentPass(p)'.printBackground
         /\ CurrentPass(p).blockAssets => CurrentPass(p)'.blockAssets
    ]_vars

====
